---- MODULE Spec2Model ----
(***************************************************************************)
(* RTPJitter (src/rtp_jitter.h, src/rtp_jitter.cpp): a jitter buffer for   *)
(* RTP packets.  One instance is modelled; every public operation is one   *)
(* action.  The clock (stdclock::now()) is the variable now, in            *)
(* milliseconds; an operation that reads the clock is given the time t at  *)
(* which it runs, t >= now.                                                *)
(*                                                                         *)
(* 32-bit quantities (unsigned and int) are kept as their two's complement *)
(* bit pattern read as a signed number of Int32Min..Int32Max, because the  *)
(* model checker's integers are 32 bits wide: the unsigned value 2^32 - 20 *)
(* is the model value -20.  Add32, Sub32 wrap as the hardware does, and    *)
(* ULt, UGe compare bit patterns as unsigned numbers.  16-bit sequence     *)
(* numbers are kept as 0..65535.                                           *)
(***************************************************************************)
EXTENDS Integers, Sequences, FiniteSets, TLC

VARIABLES
    alive,                  \* FALSE once the process has crashed
    now,                    \* stdclock::now(), ms
    buffer,                 \* _buffer: the deque of carriers, head first
    nominal_depth_ms,       \* _nominal_depth_ms
    max_buffer_depth,       \* _max_buffer_depth
    payload_sample_rate,    \* _payload_sample_rate
    depth_ms,               \* _depth_ms
    first_buf_sequence,     \* _first_buf_sequence
    last_buf_sequence,      \* _last_buf_sequence
    last_pop_sequence,      \* _last_pop_sequence
    buffering,              \* _buffering
    buffering_timestamp,    \* _buffering_timestamp
    stats,                  \* _stats
    lock,                   \* _mutex: the thread that owns it (0: none) and how many
                            \*   times that thread has locked it
    pc,                     \* where each thread is: "idle" outside the instance's
                            \*   operations, else the point it has reached in one
    op,                     \* the operation that ran last
    arg,                    \* the carrier given to the last push
    rc,                     \* the RESULT the last operation returned
    out,                    \* the carrier the last pop assigned to its argument
    path,                   \* the branch the last push or pop took
    evicted,                \* the carrier the last push dropped on overflow
    h_npush,                \* history: carriers pushed since construction
    h_pushed,               \* history: the set of sequence numbers pushed since init
    h_inorder,              \* history: every push had a higher number than all before it
    h_stream,               \* history: the .n pushes since init had consecutive numbers
                            \*   from .first on, none evicted, and only push and pop
                            \*   have run since init
    h_delivered,            \* history: numbers popped with SUCCESS, kept while h_stream.on
    h_last,                 \* history: the number the last SUCCESS pop delivered
    h_ndrop,                \* history: pops that returned DROPPED_PACKET since
                            \*   construction
    h_drops_since,          \* history: DROPPED_PACKET pops since the last SUCCESS pop
    h_prev,                 \* history: the SUCCESS pop before the last one, and what
                            \*   ran between the two
    h_quiet,                \* history: only push and pop have run since the last
                            \*   SUCCESS pop
    h_left,                 \* history: carriers the last SUCCESS pop left in the queue
    h_first_push,           \* history: the time of the first push since init
    h_trace                 \* history: the run so far, while it follows a scenario

prog == <<alive, now, buffer, nominal_depth_ms, max_buffer_depth, payload_sample_rate,
          depth_ms, first_buf_sequence, last_buf_sequence, last_pop_sequence,
          buffering, buffering_timestamp, stats>>
obs  == <<op, arg, rc, out, path, evicted>>
thr  == <<lock, pc>>
hist == <<h_npush, h_pushed, h_inorder, h_stream, h_delivered, h_last, h_ndrop,
          h_drops_since, h_prev, h_quiet, h_left, h_first_push, h_trace>>
vars == <<prog, obs, thr, hist>>

-----------------------------------------------------------------------------
(* Machine arithmetic                                                      *)

Int32Max == 2147483647
Int32Min == -2147483647 - 1
UINT16_MAX == 65535
Mod16 == 65536

\* a + b and a - b on 32-bit patterns, wrapping modulo 2^32
Add32(a, b) ==
    IF a >= 0 /\ b > 0 /\ a > Int32Max - b THEN (a + Int32Min) + (b + Int32Min)
    ELSE IF a < 0 /\ b < 0 /\ a < Int32Min - b THEN (a - Int32Min) + (b - Int32Min)
    ELSE a + b

Sub32(a, b) ==
    IF a >= 0 /\ b < 0 /\ a > Int32Max + b THEN (a + Int32Min) + (Int32Min - b)
    ELSE IF a < 0 /\ b > 0 /\ a < Int32Min + b THEN (a - Int32Min) - (b + Int32Min)
    ELSE a - b

\* unsigned comparison of two 32-bit patterns
ULt(a, b) == IF (a < 0) = (b < 0) THEN a < b ELSE b < 0
UGe(a, b) == ~ULt(a, b)

\* byte order: the host is little-endian, so ntohs/ntohl swap bytes
Swap16(x) == (x % 256) * 256 + (x \div 256)
ntohs(x) == Swap16(x)
htons(x) == Swap16(x)


\* ntohl on a 32-bit pattern: the four bytes in reverse order
Swap32(x) ==
    LET low == IF x < 0 THEN x - Int32Min ELSE x
        b0  == low % 256
        b1  == (low \div 256) % 256
        b2  == (low \div 65536) % 256
        b3  == (low \div 16777216) + (IF x < 0 THEN 128 ELSE 0)
        rest == b1 * 65536 + b2 * 256 + b3
    IN  IF b0 >= 128 THEN ((b0 - 128) * 16777216 + rest) + Int32Min
        ELSE b0 * 16777216 + rest
ntohl(x) == Swap32(x)
htonl(x) == Swap32(x)

-----------------------------------------------------------------------------
(* double values of the jitter estimate.  A value is int + 0.frac, frac a   *)
(* sequence of base-16 digits without trailing zeros; int is the floor, so  *)
(* negative values need no sign.  The estimate gains four fraction bits per *)
(* update, so the arithmetic below is the double arithmetic of the code for *)
(* as long as int and frac fit the 53-bit mantissa (12 updates for values   *)
(* below 32).                                                               *)

RECURSIVE Trim(_)
Trim(f) == IF f = <<>> THEN <<>>
           ELSE IF f[Len(f)] = 0 THEN Trim(SubSeq(f, 1, Len(f) - 1)) ELSE f

RECURSIVE Mul15(_)
Mul15(f) == IF f = <<>> THEN [d |-> <<>>, c |-> 0]
            ELSE LET r == Mul15(Tail(f))
                     t == 15 * Head(f) + r.c
                 IN  [d |-> <<t % 16>> \o r.d, c |-> t \div 16]

RECURSIVE LexLess(_, _)
LexLess(f, g) == IF g = <<>> THEN FALSE
                 ELSE IF f = <<>> THEN TRUE
                 ELSE IF Head(f) # Head(g) THEN Head(f) < Head(g)
                 ELSE LexLess(Tail(f), Tail(g))

DZero == [int |-> 0, frac |-> <<>>]
DLess(a, b) == a.int < b.int \/ (a.int = b.int /\ LexLess(a.frac, b.frac))

-----------------------------------------------------------------------------
(* Carriers (RTPPacket, src/stdinc.h) and the RTP header they hold          *)

RTP_PAYLOAD_G711U == 0
RTP_PAYLOAD_DYNAMIC == 121
TimepointMin == -1      \* timepoint::min(), "no time yet"
None == [none |-> TRUE]

\* a carrier whose header holds sequence number s and timestamp ts in network
\* byte order, annotated by the caller with the payload duration and type
Packet(s, ts, ms, pt) ==
    [sequence |-> htons(s), timestamp |-> htonl(ts), payload_ms |-> ms,
     payload_type |-> pt, use_redundant_payload |-> FALSE]

SeqOf(c) == ntohs(c.sequence)
RECURSIVE SumMs(_)
SumMs(q) == IF q = <<>> THEN 0 ELSE Head(q).payload_ms + SumMs(Tail(q))
Seqs(q) == [i \in 1..Len(q) |-> SeqOf(q[i])]

-----------------------------------------------------------------------------
(* RTPJitter::_reset_buffer_stats and RTPJitter::_calc_jitter               *)

ResetBufferStats(sample_rate) ==
    [ooo_count |-> 0, empty_count |-> 0, overflow_count |-> 0,
     jitter |-> DZero, max_jitter |-> DZero,
     prev_arrival |-> 0, prev_transit |-> 0,
     prev_rx_timestamp |-> TimepointMin,
     conversion_factor_timestamp_units |-> sample_rate \div 1000]

\* current_time - prev_rx_timestamp in ms; with prev_rx_timestamp still
\* timepoint::min() the subtraction overflows and any value may result
Interarrival(st, t) ==
    IF st.prev_rx_timestamp = TimepointMin THEN {0, 1, -1}
    ELSE {t - st.prev_rx_timestamp}

\* if (d < 0) d = -d; negating INT_MIN overflows: the value stays INT_MIN on
\* a wrapping build, and a build may as well produce its magnitude minus one
AbsInt(d) == IF d = Int32Min THEN {Int32Min, Int32Max}
             ELSE {IF d < 0 THEN -d ELSE d}

\* jitter += (1.0/16.0) * ((double)d - jitter), i.e. (15 * jitter + d) / 16;
\* the sixteenths of j.int and d are summed apart from their low digits, so
\* that no intermediate value leaves 32 bits when d is near INT_MAX or INT_MIN
Smooth(j, d) ==
    LET m == Mul15(j.frac)
        r == 15 * (j.int % 16) + (d % 16) + m.c
    IN  [int |-> 15 * (j.int \div 16) + (d \div 16) + (r \div 16),
         frac |-> Trim(<<r % 16>> \o m.d)]

JitterUpdate(st, rtp, t, ia, d, transit) ==
    LET j == Smooth(st.jitter, d)
    IN  [st EXCEPT !.prev_arrival = ntohl(rtp.timestamp),
                   !.prev_transit = transit,
                   !.jitter = j,
                   !.prev_rx_timestamp = t,
                   !.max_jitter = IF DLess(st.max_jitter, j) THEN j ELSE st.max_jitter]

\* the set of stats _calc_jitter can leave behind
CalcJitter(st, rtp, t) ==
    UNION { LET scaled  == ia * st.conversion_factor_timestamp_units
                arrival == IF st.prev_arrival = 0 THEN ntohl(rtp.timestamp)
                           ELSE Add32(scaled, st.prev_arrival)
                transit == Sub32(arrival, ntohl(rtp.timestamp))
            IN  { JitterUpdate(st, rtp, t, ia, d, transit) :
                    d \in AbsInt(Sub32(transit, st.prev_transit)) }
          : ia \in Interarrival(st, t) }


-----------------------------------------------------------------------------
(* Scenarios: runs from construction that are followed step by step.        *)
(* h_trace is the run so far while it is the beginning of a scenario, and   *)
(* Off from the first step that leaves them all.                            *)

Off == <<[op |-> "off", p |-> None, t |-> 0]>>
PushAt(p, t) == [op |-> "push", p |-> p, t |-> t]
PopAt(t) == [op |-> "pop", p |-> None, t |-> t]
PCMU(s) == Packet(s, 160 * (s % 8), 20, RTP_PAYLOAD_G711U)
Dyn(s)  == Packet(s, 160 * (s % 8), 20, RTP_PAYLOAD_DYNAMIC)
Long(s) == Packet(s, 160 * (s % 8), 40, RTP_PAYLOAD_G711U)

\* spec.md section 8 scenario 1, nominal depth 60 ms
Warmup == << PushAt(PCMU(100), 0), PushAt(PCMU(101), 1), PushAt(PCMU(102), 2),
             PopAt(5), PopAt(61), PopAt(61), PopAt(61), PopAt(61) >>

\* spec.md section 8 scenario 3: one carrier arrives one position late
Late == << PushAt(PCMU(10), 0), PushAt(PCMU(12), 0), PushAt(PCMU(11), 0),
           PushAt(PCMU(13), 0), PopAt(60), PopAt(60), PopAt(60), PopAt(60) >>

Scenarios == {Warmup, Late}

Follow(e) ==
    IF /\ h_trace # Off
       /\ \E sc \in Scenarios : /\ Len(h_trace) < Len(sc)
                                /\ SubSeq(sc, 1, Len(h_trace) + 1) = Append(h_trace, e)
    THEN Append(h_trace, e)
    ELSE Off

-----------------------------------------------------------------------------
(* RTPJitter::set_depth, RTPJitter::init, the constructor                  *)

\* the maximum set_depth(ms_depth, max_depth) stores
MaxDepthFor(ms_depth, max_depth) ==
    IF UGe(max_depth, ms_depth) THEN max_depth ELSE Add32(ms_depth, ms_depth)

StreamOff == [on |-> FALSE, first |-> 0, n |-> 0]
NoPrev == [seq |-> -1, drops |-> 0, quiet |-> FALSE, left |-> 0]

HistInit ==
    /\ h_npush = 0
    /\ h_pushed = {}
    /\ h_inorder = TRUE
    /\ h_stream = [on |-> TRUE, first |-> 0, n |-> 0]
    /\ h_delivered = <<>>
    /\ h_last = -1
    /\ h_ndrop = 0
    /\ h_drops_since = 0
    /\ h_prev = NoPrev
    /\ h_quiet = FALSE
    /\ h_left = 0
    /\ h_first_push = TimepointMin

HistReset ==
    /\ h_npush' = h_npush
    /\ h_pushed' = {}
    /\ h_inorder' = TRUE
    /\ h_stream' = [on |-> TRUE, first |-> 0, n |-> 0]
    /\ h_delivered' = <<>>
    /\ h_last' = -1
    /\ h_ndrop' = h_ndrop
    /\ h_drops_since' = 0
    /\ h_prev' = NoPrev
    /\ h_quiet' = FALSE
    /\ h_left' = 0
    /\ h_first_push' = TimepointMin

Threads == {1, 2}
Unlocked == [owner |-> 0, count |-> 0]

\* the state RTPJitter(depth, sample_rate) constructs
Construct(depth, sample_rate) ==
    /\ alive = TRUE
    /\ lock = Unlocked
    /\ pc = [t \in Threads |-> "idle"]
    /\ now = 0
    /\ buffer = <<>>
    /\ depth_ms = 0
    /\ first_buf_sequence = 0
    /\ last_buf_sequence = 0
    /\ last_pop_sequence = 0
    /\ nominal_depth_ms = depth
    /\ max_buffer_depth = MaxDepthFor(depth, 0)
    /\ payload_sample_rate = sample_rate
    /\ buffering = TRUE
    /\ buffering_timestamp = TimepointMin
    /\ stats = ResetBufferStats(sample_rate)
    /\ op = "init" /\ arg = None /\ rc = "SUCCESS" /\ out = None
    /\ path = "init" /\ evicted = None
    /\ HistInit
    /\ h_trace = <<>>

-----------------------------------------------------------------------------
(* RTPJitter::push                                                         *)

\* a variant of Overflowing that lets the buffer grow to twice the maximum
OverflowingAtTwiceMax == ULt(Add32(max_buffer_depth, max_buffer_depth), depth_ms)

\* if (_depth_ms > _max_buffer_depth), an unsigned comparison
Overflowing == ULt(max_buffer_depth, depth_ms)

\* a variant of AppendCond without the test for the wrap from 0xFFFF to 0
AppendCondNoWrap(s) ==
    \/ s >= last_buf_sequence
    \/ last_pop_sequence = first_buf_sequence

\* the carrier goes to the back of the buffer
AppendCond(s) ==
    \/ s >= last_buf_sequence
    \/ (s = 0 /\ last_buf_sequence = UINT16_MAX)
    \/ last_pop_sequence = first_buf_sequence

\* the comparisons of the out-of-order branch are made on int
TooOld(s) == s < first_buf_sequence - 1
PrecedesFront(s) == s = first_buf_sequence - 1

\* the index of the first item of q the loop stops at, 0 when it stops at none;
\* the loop compares with the item's sequence field as it lies in the header
MiddlePos(q, s) ==
    IF \E i \in 1..Len(q) : s < q[i].sequence
    THEN CHOOSE i \in 1..Len(q) : /\ s < q[i].sequence
                                  /\ \A j \in 1..(i - 1) : ~(s < q[j].sequence)
    ELSE 0

InsertMiddle(q, p, s) ==
    LET i == MiddlePos(q, s)
    IN  IF i = 0 THEN q
        ELSE SubSeq(q, 1, i - 1) \o <<p>> \o SubSeq(q, i, Len(q))

PushPath(s) ==
    IF AppendCond(s) THEN "append"
    ELSE IF TooOld(s) THEN "too_old"
    ELSE IF PrecedesFront(s) THEN "front"
    ELSE "middle"

\* a variant of PushResult in which the overflow code is not overwritten
PushResultOverflowFirst(how, ovf) ==
    IF ovf THEN "BUFFER_OVERFLOW"
    ELSE IF how = "too_old" THEN "BAD_PACKET" ELSE "SUCCESS"

\* the RESULT of a push that took the branch how, ovf after an eviction
PushResult(how, ovf) ==
    IF how = "too_old" THEN "BAD_PACKET"
    ELSE IF ovf THEN "BUFFER_OVERFLOW" ELSE "SUCCESS"

\* push after the overflow check has left the buffer q of depth dep
PushInsert(p, t, q, dep, ovf, ev) ==
    LET s   == ntohs(p.sequence)
        how == PushPath(s)
        st0 == IF ovf THEN [stats EXCEPT !.overflow_count = Add32(@, 1)] ELSE stats
        q1  == CASE how = "append" -> Append(q, p)
                 [] how = "too_old" -> q
                 [] how = "front" -> <<p>> \o q
                 [] how = "middle" -> InsertMiddle(q, p, s)
    IN  /\ \E st1 \in CalcJitter(st0, p, t) :
              stats' = IF how = "append" THEN st1
                       ELSE [st1 EXCEPT !.ooo_count = Add32(@, 1)]
        /\ buffer' = q1
        /\ depth_ms' = IF how = "append" THEN Add32(dep, p.payload_ms) ELSE dep
        /\ last_buf_sequence' = IF how = "append" THEN s ELSE last_buf_sequence
        /\ first_buf_sequence' =
              IF (how = "append" /\ Len(q1) = 1) \/ how = "front" THEN s
              ELSE first_buf_sequence
        /\ last_pop_sequence' =
              IF how = "append" /\ Len(q1) = 1 THEN s ELSE last_pop_sequence
        /\ buffering_timestamp' =
              IF buffering /\ buffering_timestamp = TimepointMin THEN t
              ELSE buffering_timestamp
        /\ rc' = PushResult(how, ovf)
        /\ path' = how
        /\ evicted' = ev
        /\ alive' = TRUE

\* _buffer.front() and pop_front() on an empty deque are undefined: the
\* process crashes, or it goes on with whatever carrier the deque's storage
\* yields (payload_ms g) and the deque still empty
GarbageMs == {0, 20}
Phantom(g) == Packet(0, 0, g, RTP_PAYLOAD_G711U)

PushHist(s, t) ==
    LET stream == IF h_stream.n = 0
                  THEN [on |-> h_stream.on /\ ~Overflowing, first |-> s, n |-> 1]
                  ELSE IF /\ h_stream.on
                          /\ ~Overflowing
                          /\ s = (h_stream.first + h_stream.n) % Mod16
                       THEN [h_stream EXCEPT !.n = @ + 1]
                       ELSE StreamOff
    IN  /\ h_npush' = h_npush + 1
        /\ h_pushed' = h_pushed \cup {s}
        /\ h_inorder' = (h_inorder /\ \A x \in h_pushed : x < s)
        /\ h_stream' = IF stream.on THEN stream ELSE StreamOff
        /\ h_delivered' = IF stream.on THEN h_delivered ELSE <<>>
        /\ h_first_push' = IF h_first_push = TimepointMin THEN t ELSE h_first_push
        /\ UNCHANGED <<h_last, h_ndrop, h_drops_since, h_prev, h_quiet, h_left>>

PushCrash ==
    /\ alive' = FALSE
    /\ rc' = "CRASH" /\ path' = "crash" /\ evicted' = None
    /\ stats' = [stats EXCEPT !.overflow_count = Add32(@, 1)]
    /\ UNCHANGED <<buffer, depth_ms, first_buf_sequence, last_buf_sequence,
                   last_pop_sequence, buffering_timestamp>>

Push(p, t) ==
    /\ alive
    /\ t >= now
    /\ now' = t
    /\ op' = "push" /\ arg' = p /\ out' = None
    /\ IF ~Overflowing THEN PushInsert(p, t, buffer, depth_ms, FALSE, None)
       ELSE IF buffer # <<>>
            THEN PushInsert(p, t, Tail(buffer),
                            Sub32(depth_ms, Head(buffer).payload_ms), TRUE, Head(buffer))
            ELSE \/ PushCrash
                 \/ \E g \in GarbageMs :
                       PushInsert(p, t, <<>>, Sub32(depth_ms, g), TRUE, Phantom(g))
    /\ PushHist(ntohs(p.sequence), t)
    /\ h_trace' = Follow(PushAt(p, t))
    /\ UNCHANGED <<nominal_depth_ms, max_buffer_depth, payload_sample_rate, buffering>>

\* push(nullptr), or a carrier without data: nothing is locked or touched
PushNull ==
    /\ alive
    /\ op' = "push" /\ arg' = None /\ out' = None
    /\ rc' = "BAD_PACKET" /\ path' = "null" /\ evicted' = None
    /\ h_trace' = Off
    /\ UNCHANGED <<prog, h_npush, h_pushed, h_inorder, h_stream, h_delivered, h_last,
                   h_ndrop, h_drops_since, h_prev, h_quiet, h_left, h_first_push>>


-----------------------------------------------------------------------------
(* RTPJitter::pop                                                          *)

\* stdclock::now() - _buffering_timestamp in ms; with _buffering_timestamp
\* still timepoint::min() the subtraction overflows and any value may result
BufferTime(t) ==
    IF buffering_timestamp = TimepointMin THEN {0, -1}
    ELSE {t - buffering_timestamp}

\* variants of LeaveBuffering: one that ends buffering as soon as the buffer
\* holds anything, one that ignores the depth
LeaveBufferingAtOnce(buffer_time) ==
    \/ UGe(buffer_time, nominal_depth_ms)
    \/ UGe(depth_ms, 0)

LeaveBufferingByTimeOnly(buffer_time) ==
    UGe(buffer_time, nominal_depth_ms)

\* the test that ends the buffering state (both comparisons are unsigned)
LeaveBuffering(buffer_time) ==
    \/ UGe(buffer_time, nominal_depth_ms)
    \/ UGe(depth_ms, nominal_depth_ms)

\* "special" case: the front carrier is handed out but kept in the buffer
Redundant(bp) ==
    /\ bp.payload_type = RTP_PAYLOAD_DYNAMIC
    /\ last_pop_sequence = first_buf_sequence - 2

\* a variant of TakeFront without the test for the wrap from 0xFFFF to 0
TakeFrontNoWrap(bp) ==
    \/ last_pop_sequence = first_buf_sequence
    \/ last_pop_sequence = first_buf_sequence - 1
    \/ Redundant(bp)

\* a variant of TakeFront that accepts a gap of two for every payload type
TakeFrontGapOfTwo(bp) ==
    \/ last_pop_sequence = first_buf_sequence
    \/ last_pop_sequence = first_buf_sequence - 1
    \/ (last_pop_sequence = UINT16_MAX /\ first_buf_sequence = 0)
    \/ last_pop_sequence = first_buf_sequence - 2

\* the front carrier is handed out
TakeFront(bp) ==
    \/ last_pop_sequence = first_buf_sequence
    \/ last_pop_sequence = first_buf_sequence - 1
    \/ (last_pop_sequence = UINT16_MAX /\ first_buf_sequence = 0)
    \/ Redundant(bp)

PopHist(result, seq, left) ==
    /\ h_delivered' = IF result = "SUCCESS" /\ h_stream.on
                      THEN Append(h_delivered, seq) ELSE h_delivered
    /\ h_last' = IF result = "SUCCESS" THEN seq ELSE h_last
    /\ h_ndrop' = IF result = "DROPPED_PACKET" THEN h_ndrop + 1 ELSE h_ndrop
    /\ h_drops_since' = CASE result = "SUCCESS" -> 0
                          [] result = "DROPPED_PACKET" -> h_drops_since + 1
                          [] OTHER -> h_drops_since
    /\ h_prev' = IF result = "SUCCESS"
                 THEN [seq |-> h_last, drops |-> h_drops_since, quiet |-> h_quiet,
                       left |-> h_left]
                 ELSE h_prev
    /\ h_quiet' = IF result = "SUCCESS" THEN TRUE ELSE h_quiet
    /\ h_left' = IF result = "SUCCESS" THEN left ELSE h_left

\* a variant of PopBuffering that reports an empty buffer as BUFFER_EMPTY
PopBufferingOrEmpty(how) ==
    /\ rc' = (IF how = "empty" THEN "BUFFER_EMPTY" ELSE "BUFFERING") /\ path' = how /\ out' = None
    /\ PopHist("BUFFERING", 0, 0)
    /\ UNCHANGED <<buffer, depth_ms, first_buf_sequence, last_pop_sequence>>

PopBuffering(how) ==
    /\ rc' = "BUFFERING" /\ path' = how /\ out' = None
    /\ PopHist("BUFFERING", 0, 0)
    /\ UNCHANGED <<buffer, depth_ms, first_buf_sequence, last_pop_sequence>>

\* a variant of PopFront whose count of dropped carriers is not kept to 16 bits
PopFrontCountingOn ==
    LET bp == Head(buffer)
    IN  IF TakeFront(bp)
        THEN LET packet == [bp EXCEPT !.use_redundant_payload = Redundant(bp)]
                 q1     == IF Redundant(bp) THEN <<packet>> \o Tail(buffer)
                           ELSE Tail(buffer)
                 seq    == ntohs(packet.sequence)
             IN  /\ out' = packet
                 /\ buffer' = q1
                 /\ depth_ms' = IF Redundant(bp) THEN depth_ms
                                ELSE Sub32(depth_ms, packet.payload_ms)
                 /\ last_pop_sequence' = seq
                 /\ first_buf_sequence' = IF q1 = <<>> THEN seq
                                          ELSE ntohs(Head(q1).sequence)
                 /\ rc' = "SUCCESS"
                 /\ path' = IF Redundant(bp) THEN "redundant" ELSE "front"
                 /\ PopHist("SUCCESS", seq, Len(q1))
        ELSE /\ last_pop_sequence' = last_pop_sequence + 1
             /\ rc' = "DROPPED_PACKET" /\ path' = "dropped" /\ out' = None
             /\ PopHist("DROPPED_PACKET", 0, 0)
             /\ UNCHANGED <<buffer, depth_ms, first_buf_sequence>>

PopFront ==
    LET bp == Head(buffer)
    IN  IF TakeFront(bp)
        THEN LET packet == [bp EXCEPT !.use_redundant_payload = Redundant(bp)]
                 q1     == IF Redundant(bp) THEN <<packet>> \o Tail(buffer)
                           ELSE Tail(buffer)
                 seq    == ntohs(packet.sequence)
             IN  /\ out' = packet
                 /\ buffer' = q1
                 /\ depth_ms' = IF Redundant(bp) THEN depth_ms
                                ELSE Sub32(depth_ms, packet.payload_ms)
                 /\ last_pop_sequence' = seq
                 /\ first_buf_sequence' = IF q1 = <<>> THEN seq
                                          ELSE ntohs(Head(q1).sequence)
                 /\ rc' = "SUCCESS"
                 /\ path' = IF Redundant(bp) THEN "redundant" ELSE "front"
                 /\ PopHist("SUCCESS", seq, Len(q1))
        ELSE /\ last_pop_sequence' = (last_pop_sequence + 1) % Mod16
             /\ rc' = "DROPPED_PACKET" /\ path' = "dropped" /\ out' = None
             /\ PopHist("DROPPED_PACKET", 0, 0)
             /\ UNCHANGED <<buffer, depth_ms, first_buf_sequence>>

\* a variant of Pop that ends the buffering state and leaves the buffering
\* clock as it was
PopKeepingClock(t) ==
    /\ alive
    /\ t >= now
    /\ now' = t
    /\ op' = "pop" /\ arg' = None /\ evicted' = None
    /\ IF buffer = <<>>
       THEN /\ buffering' = TRUE
            /\ stats' = [stats EXCEPT !.empty_count = Add32(@, 1)]
            /\ PopBuffering("empty")
            /\ UNCHANGED buffering_timestamp
       ELSE /\ UNCHANGED stats
            /\ IF buffering
               THEN \E buffer_time \in BufferTime(t) :
                      IF LeaveBuffering(buffer_time)
                      THEN /\ buffering' = FALSE
                           /\ UNCHANGED buffering_timestamp
                           /\ PopFront
                      ELSE /\ PopBuffering("buffering")
                           /\ UNCHANGED <<buffering, buffering_timestamp>>
               ELSE /\ PopFront
                    /\ UNCHANGED <<buffering, buffering_timestamp>>
    /\ h_trace' = Follow(PopAt(t))
    /\ UNCHANGED <<alive, nominal_depth_ms, max_buffer_depth, payload_sample_rate,
                   last_buf_sequence, h_npush, h_pushed, h_inorder, h_stream,
                   h_first_push>>

Pop(t) ==
    /\ alive
    /\ t >= now
    /\ now' = t
    /\ op' = "pop" /\ arg' = None /\ evicted' = None
    /\ IF buffer = <<>>
       THEN /\ buffering' = TRUE
            /\ stats' = [stats EXCEPT !.empty_count = Add32(@, 1)]
            /\ PopBuffering("empty")
            /\ UNCHANGED buffering_timestamp
       ELSE /\ UNCHANGED stats
            /\ IF buffering
               THEN \E buffer_time \in BufferTime(t) :
                      IF LeaveBuffering(buffer_time)
                      THEN /\ buffering' = FALSE
                           /\ buffering_timestamp' = TimepointMin
                           /\ PopFront
                      ELSE /\ PopBuffering("buffering")
                           /\ UNCHANGED <<buffering, buffering_timestamp>>
               ELSE /\ PopFront
                    /\ UNCHANGED <<buffering, buffering_timestamp>>
    /\ h_trace' = Follow(PopAt(t))
    /\ UNCHANGED <<alive, nominal_depth_ms, max_buffer_depth, payload_sample_rate,
                   last_buf_sequence, h_npush, h_pushed, h_inorder, h_stream,
                   h_first_push>>

-----------------------------------------------------------------------------
(* RTPJitter::reset, RTPJitter::set_depth, RTPJitter::eot_detected          *)

OtherHist ==
    /\ h_quiet' = FALSE
    /\ h_stream' = StreamOff
    /\ h_delivered' = <<>>
    /\ h_trace' = Off
    /\ UNCHANGED <<h_npush, h_pushed, h_inorder, h_last, h_ndrop, h_drops_since,
                   h_prev, h_left, h_first_push>>

\* _clean_buffer(); init(_nominal_depth_ms, _payload_sample_rate)
\* a variant of Reset whose init leaves out _reset_buffer_stats
ResetKeepingStats ==
    /\ alive
    /\ buffer' = <<>>
    /\ depth_ms' = 0
    /\ first_buf_sequence' = 0
    /\ last_buf_sequence' = 0
    /\ last_pop_sequence' = 0
    /\ nominal_depth_ms' = nominal_depth_ms
    /\ max_buffer_depth' = MaxDepthFor(nominal_depth_ms, 0)
    /\ payload_sample_rate' = payload_sample_rate
    /\ buffering' = TRUE
    /\ buffering_timestamp' = TimepointMin
    /\ stats' = stats
    /\ op' = "reset" /\ arg' = None /\ rc' = "SUCCESS" /\ out' = None
    /\ path' = "reset" /\ evicted' = None
    /\ HistReset
    /\ h_trace' = Off
    /\ UNCHANGED <<alive, now>>

Reset ==
    /\ alive
    /\ buffer' = <<>>
    /\ depth_ms' = 0
    /\ first_buf_sequence' = 0
    /\ last_buf_sequence' = 0
    /\ last_pop_sequence' = 0
    /\ nominal_depth_ms' = nominal_depth_ms
    /\ max_buffer_depth' = MaxDepthFor(nominal_depth_ms, 0)
    /\ payload_sample_rate' = payload_sample_rate
    /\ buffering' = TRUE
    /\ buffering_timestamp' = TimepointMin
    /\ stats' = ResetBufferStats(payload_sample_rate)
    /\ op' = "reset" /\ arg' = None /\ rc' = "SUCCESS" /\ out' = None
    /\ path' = "reset" /\ evicted' = None
    /\ HistReset
    /\ h_trace' = Off
    /\ UNCHANGED <<alive, now>>

SetDepth(ms_depth, max_depth) ==
    /\ alive
    /\ nominal_depth_ms' = ms_depth
    /\ max_buffer_depth' = MaxDepthFor(ms_depth, max_depth)
    /\ op' = "set_depth" /\ arg' = [ms_depth |-> ms_depth, max_depth |-> max_depth]
    /\ rc' = "SUCCESS" /\ out' = None
    /\ path' = "set_depth" /\ evicted' = None
    /\ OtherHist
    /\ UNCHANGED <<alive, now, buffer, payload_sample_rate, depth_ms, first_buf_sequence,
                   last_buf_sequence, last_pop_sequence, buffering, buffering_timestamp,
                   stats>>

\* a variant of EotDetected that also starts the statistics afresh
EotDetectedClearingStats ==
    /\ alive
    /\ first_buf_sequence' = 0
    /\ last_buf_sequence' = 0
    /\ last_pop_sequence' = 0
    /\ op' = "eot_detected" /\ arg' = None /\ rc' = "SUCCESS" /\ out' = None
    /\ path' = "eot_detected" /\ evicted' = None
    /\ stats' = ResetBufferStats(payload_sample_rate)
    /\ OtherHist
    /\ UNCHANGED <<alive, now, buffer, nominal_depth_ms, max_buffer_depth,
                   payload_sample_rate, depth_ms, buffering, buffering_timestamp>>

EotDetected ==
    /\ alive
    /\ first_buf_sequence' = 0
    /\ last_buf_sequence' = 0
    /\ last_pop_sequence' = 0
    /\ op' = "eot_detected" /\ arg' = None /\ rc' = "SUCCESS" /\ out' = None
    /\ path' = "eot_detected" /\ evicted' = None
    /\ OtherHist
    /\ UNCHANGED <<alive, now, buffer, nominal_depth_ms, max_buffer_depth,
                   payload_sample_rate, depth_ms, buffering, buffering_timestamp,
                   stats>>

-----------------------------------------------------------------------------
(* Specifications                                                          *)

MaxPush == 3        \* pushes in a run
MaxDrop == 2        \* DROPPED_PACKET pops in a run
MaxEmpty == 1       \* pops of an empty buffer between two resets

SampleRate == 8000
Carriers == { PCMU(10), PCMU(11), PCMU(12) }
Times == {0, 60}
Depths == {<<20, 0>>}

\* the operations called one after the other: each locks, runs and unlocks
\* with no other thread in between
PushStep(Cs, Ts, n) ==
    /\ h_npush < n
    /\ \E p \in Cs, t \in Ts : Push(p, t)
    /\ UNCHANGED thr

PushNullStep == PushNull /\ UNCHANGED thr

PopStep(Ts) ==
    /\ h_ndrop < MaxDrop
    /\ buffer = <<>> => ULt(stats.empty_count, MaxEmpty)
    /\ \E t \in Ts : Pop(t)
    /\ UNCHANGED thr

SetDepthStep(Ds) == (\E d \in Ds : SetDepth(d[1], d[2])) /\ UNCHANGED thr

ResetStep == Reset /\ UNCHANGED thr

EotDetectedStep == EotDetected /\ UNCHANGED thr

Init == Construct(60, SampleRate)

Next ==
    \/ PushStep(Carriers, Times, MaxPush)
    \/ PopStep(Times)
    \/ ResetStep
    \/ SetDepthStep(Depths)
    \/ EotDetectedStep

Spec == Init /\ [][Next]_vars

\* a stream across the wrap of the sequence numbers: push and pop only
MaxStreamPush == 3
StreamCarriers == { PCMU(65534), Dyn(65535), PCMU(0), Dyn(1), PCMU(2) }

NextStream ==
    \/ PushStep(StreamCarriers, Times, MaxStreamPush)
    \/ PopStep(Times)
    \/ PushNullStep

SpecStream == Init /\ [][NextStream]_vars

\* a stream with a gap, some carriers with dynamic (redundant) payloads
MaxGapPush == 3
GapCarriers == { PCMU(10), PCMU(11), PCMU(12), Dyn(12) }

NextGap ==
    \/ PushStep(GapCarriers, Times, MaxGapPush)
    \/ PopStep(Times)
    \/ EotDetectedStep

SpecGap == Init /\ [][NextGap]_vars

\* the carriers and the clock of the scenario Warmup
MaxWarmupPush == 3
WarmupCarriers == { PCMU(100), PCMU(101), PCMU(102) }
WarmupTimes == {0, 1, 2, 5, 61}

NextWarmup ==
    \/ PushStep(WarmupCarriers, WarmupTimes, MaxWarmupPush)
    \/ PopStep(WarmupTimes)

SpecWarmup == Init /\ [][NextWarmup]_vars

\* the carriers of the scenario Late, pushed in any order
MaxLatePush == 4
LateCarriers == { PCMU(10), PCMU(11), PCMU(12), PCMU(13) }

NextLate ==
    \/ PushStep(LateCarriers, Times, MaxLatePush)
    \/ PopStep(Times)

SpecLate == Init /\ [][NextLate]_vars

\* the four carriers around the wrap of the sequence numbers
MaxWrapPush == 4
WrapCarriers == { PCMU(65534), PCMU(65535), PCMU(0), PCMU(1) }

NextWrap ==
    \/ PushStep(WrapCarriers, Times, MaxWrapPush)
    \/ PopStep(Times)

SpecWrap == Init /\ [][NextWrap]_vars

\* carriers of 20 ms and of 40 ms into a buffer of nominal depth 10 ms, which
\* overflows above 20 ms
MaxMixedPush == 3
MixedCarriers == { PCMU(10), PCMU(11), Long(12) }
MixedTimes == {0, 10}

InitMixed == Construct(10, SampleRate)

NextMixed ==
    \/ PushStep(MixedCarriers, MixedTimes, MaxMixedPush)
    \/ PopStep(MixedTimes)
    \/ ResetStep

SpecMixed == InitMixed /\ [][NextMixed]_vars


-----------------------------------------------------------------------------
(* Threads.  An operation that begins with rscoped_lock lock(_mutex) is two *)
(* steps of the calling thread: it gets the mutex (Enter), and it runs to   *)
(* its return and gives the mutex back.  What it does in between is private *)
(* to it as far as the other locking operations go, so it takes effect in   *)
(* the second step.  eot_detected and the inline getters do not lock: each  *)
(* of their accesses to a member is a step of its own, taken wherever the   *)
(* other threads are.                                                       *)

\* a variant of CanLock for a mutex that does not keep other threads out
CanLockAlways(t) == TRUE

\* std::recursive_mutex: free, or owned by the thread that asks
CanLock(t) == lock.owner \in {0, t}

\* a variant of Locked for a mutex that does not count its holds
LockedNotCounted(t) == [owner |-> t, count |-> 1]

Locked(t) == [owner |-> t, count |-> lock.count + 1]
Released == IF lock.count > 1 THEN [lock EXCEPT !.count = @ - 1] ELSE Unlocked
Goto(t, l) == pc' = [pc EXCEPT ![t] = l]

MaxThreadPush == 1
ThreadCarriers == { PCMU(10), PCMU(11) }
ThreadTimes == {0}

\* the guard that keeps the runs finite, for a thread about to enter o
MayEnter(o, n) ==
    CASE o = "push" -> h_npush + Cardinality({u \in Threads : pc[u] = "push"}) < n
      [] o = "pop" -> /\ h_ndrop < MaxDrop
                      /\ buffer = <<>> => ULt(stats.empty_count, MaxEmpty)
      [] OTHER -> TRUE

\* thread t calls push, pop, set_depth or reset and gets past the lock
EnterOp(t, o, n) ==
    /\ alive
    /\ pc[t] = "idle"
    /\ CanLock(t)
    /\ lock' = Locked(t)
    /\ MayEnter(o, n)
    /\ Goto(t, o)
    /\ UNCHANGED <<prog, obs, hist>>

Enter(t) == \E o \in {"push", "pop", "set_depth", "reset"} : EnterOp(t, o, MaxThreadPush)

ThreadPush(t) ==
    /\ pc[t] = "push"
    /\ \E p \in ThreadCarriers, tm \in ThreadTimes : Push(p, tm)
    /\ lock' = Released
    /\ Goto(t, "idle")

ThreadPop(t) ==
    /\ pc[t] = "pop"
    /\ \E tm \in ThreadTimes : Pop(tm)
    /\ lock' = Released
    /\ Goto(t, "idle")

ThreadSetDepth(t) ==
    /\ pc[t] = "set_depth"
    /\ \E d \in Depths : SetDepth(d[1], d[2])
    /\ lock' = Released
    /\ Goto(t, "idle")

\* reset calls init, which calls set_depth, which locks the mutex again
ResetSetDepth(t) ==
    /\ pc[t] = "reset"
    /\ CanLock(t)
    /\ lock' = Locked(t)
    /\ Goto(t, "reset_set_depth")
    /\ UNCHANGED <<prog, obs, hist>>

\* set_depth returns into init
ResetInit(t) ==
    /\ pc[t] = "reset_set_depth"
    /\ lock' = Released
    /\ Goto(t, "reset_init")
    /\ UNCHANGED <<prog, obs, hist>>

ThreadReset(t) ==
    /\ pc[t] = "reset_init"
    /\ Reset
    /\ lock' = Released
    /\ Goto(t, "idle")

\* thread t calls eot_detected: no lock is taken
EotEnter(t) ==
    /\ alive
    /\ pc[t] = "idle"
    /\ Goto(t, "eot_first_buf")
    /\ UNCHANGED <<prog, obs, lock, hist>>

\* the three assignments of eot_detected, one at a time
EotWrite(t) ==
    /\ pc[t] \in {"eot_first_buf", "eot_last_buf", "eot_last_pop"}
    /\ first_buf_sequence' = IF pc[t] = "eot_first_buf" THEN 0 ELSE first_buf_sequence
    /\ last_buf_sequence' = IF pc[t] = "eot_last_buf" THEN 0 ELSE last_buf_sequence
    /\ last_pop_sequence' = IF pc[t] = "eot_last_pop" THEN 0 ELSE last_pop_sequence
    /\ Goto(t, CASE pc[t] = "eot_first_buf" -> "eot_last_buf"
                 [] pc[t] = "eot_last_buf" -> "eot_last_pop"
                 [] OTHER -> "idle")
    /\ op' = "eot_detected" /\ arg' = None /\ rc' = "SUCCESS" /\ out' = None
    /\ path' = "eot_detected" /\ evicted' = None
    /\ OtherHist
    /\ UNCHANGED <<alive, now, buffer, nominal_depth_ms, max_buffer_depth,
                   payload_sample_rate, depth_ms, buffering, buffering_timestamp,
                   stats, lock>>

\* bool buffering() { return _buffering; }: one read, no lock
ThreadBuffering(t) ==
    /\ alive
    /\ pc[t] = "idle"
    /\ op' = "buffering" /\ arg' = None /\ rc' = "SUCCESS"
    /\ out' = [value |-> buffering]
    /\ path' = "buffering" /\ evicted' = None
    /\ UNCHANGED <<prog, thr, hist>>

InitThreads == Construct(20, SampleRate)

NextThreads ==
    \E t \in Threads :
        \/ Enter(t)
        \/ ThreadPush(t)
        \/ ThreadPop(t)
        \/ ThreadSetDepth(t)
        \/ ResetSetDepth(t)
        \/ ResetInit(t)
        \/ ThreadReset(t)
        \/ EotEnter(t)
        \/ EotWrite(t)
        \/ ThreadBuffering(t)

SpecThreads == InitThreads /\ [][NextThreads]_vars

(* Changes of the depths and resets among the pushes and pops. *)
MaxDepthPush == 2
DepthCarriers == { PCMU(10), PCMU(12) }
\* <<ms_depth, max_depth>>; Int32Min is the unsigned 2^31
DepthPairs == { <<20, 0>>, <<20, 30>>, <<40, 20>>, <<Int32Min, 0>> }

InitDepth == Construct(20, SampleRate)

NextDepth ==
    \/ PushStep(DepthCarriers, Times, MaxDepthPush)
    \/ PopStep(Times)
    \/ SetDepthStep(DepthPairs)
    \/ ResetStep
    \/ EotDetectedStep

SpecDepth == InitDepth /\ [][NextDepth]_vars

(* Carriers whose timestamps are half the 32-bit range apart. *)
MaxJitterPush == 2
JitterCarriers == { Packet(10, Int32Min, 20, RTP_PAYLOAD_G711U),
                    Packet(11, 0, 20, RTP_PAYLOAD_G711U),
                    Packet(12, 160, 20, RTP_PAYLOAD_G711U),
                    Packet(13, Int32Max, 20, RTP_PAYLOAD_G711U) }

NextJitter ==
    \/ PushStep(JitterCarriers, Times, MaxJitterPush)
    \/ PopStep(Times)

SpecJitter == Init /\ [][NextJitter]_vars

(* Playout over gaps: the application goes on popping (weak fairness of    *)
(* the pop) while the queue holds a carrier, and nothing is pushed while it *)
(* is skipping a gap.  The bound on the DROPPED_PACKET results lets a gap   *)
(* of any 16-bit length be skipped once.                                    *)
MaxPlayoutPush == 2
MaxPlayoutDrop == 65535
PlayoutCarriers == { PCMU(0), PCMU(1) }
PlayoutTimes == {0}

PopStepUpTo(Ts, n) ==
    /\ h_ndrop < n
    /\ buffer = <<>> => ULt(stats.empty_count, MaxEmpty)
    /\ \E t \in Ts : Pop(t)
    /\ UNCHANGED thr

PlayoutPush ==
    /\ h_drops_since = 0
    /\ PushStep(PlayoutCarriers, PlayoutTimes, MaxPlayoutPush)

PlayoutPop ==
    /\ buffer # <<>>
    /\ PopStepUpTo(PlayoutTimes, MaxPlayoutDrop)

InitPlayout == Construct(20, SampleRate)

NextPlayout == PlayoutPush \/ PlayoutPop

SpecPlayout == InitPlayout /\ [][NextPlayout]_vars /\ WF_vars(PlayoutPop)

(* One thread that only pushes and one that only pops. *)
MaxPushPopPush == 3
Pusher == 1
Popper == 2

PusherEnter == EnterOp(Pusher, "push", MaxPushPopPush)
PusherPush == ThreadPush(Pusher)
PopperEnter == EnterOp(Popper, "pop", MaxPushPopPush)
PopperPop == ThreadPop(Popper)

NextPushPop == PusherEnter \/ PusherPush \/ PopperEnter \/ PopperPop

SpecPushPop == InitThreads /\ [][NextPushPop]_vars

-----------------------------------------------------------------------------
(* C1: in every reachable state depth_ms is the sum of payload_ms over the  *)
(* carriers in the queue.                                                   *)
C1_DepthIsSum == depth_ms = SumMs(buffer)

(* C2: from head to tail the queue's sequence numbers never decrease,       *)
(* except across the one step 0xFFFF -> 0x0000.  (The claim adds that equal *)
(* numbers occur only at the tail; the ordering alone is stated here, since *)
(* a run that breaks it breaks the claim.)                                  *)
C2_QueueOrdered ==
    LET q == Seqs(buffer)
    IN  \A i \in 1..(Len(q) - 1) :
            q[i] <= q[i + 1] \/ (q[i] = UINT16_MAX /\ q[i + 1] = 0)

\* the consecutive sequence numbers first, first + 1, ... (n of them, modulo 2^16)
Run(first, n) == [i \in 1..n |-> (first + i - 1) % Mod16]

\* the run so far is the first n steps of the scenario sc
After(sc, n) == h_trace = SubSeq(sc, 1, n)

\* every carrier of the queue q has the payload duration ms
Uniform(q, ms) == \A i \in 1..Len(q) : q[i].payload_ms = ms

(* C3: while the pushes since init carry consecutive sequence numbers in    *)
(* increasing order and no push has evicted, the carriers delivered by the  *)
(* SUCCESS pops followed by the carriers still queued are exactly the       *)
(* pushed numbers in push order, each once, and no pop has returned         *)
(* DROPPED_PACKET, however the pops are interleaved with the pushes.        *)
C3_StreamDelivered ==
    h_stream.on =>
        /\ h_ndrop = 0
        /\ h_delivered \o Seqs(buffer) = Run(h_stream.first, h_stream.n)

\* a stream across the wrap, two carriers delivered, one queued, after a pop
\* that found the buffer empty
C3_Witness ==
    /\ h_stream.on
    /\ h_delivered = <<65535, 0>>
    /\ Seqs(buffer) = <<1>>
    /\ stats.empty_count = 1

C5_FirstPopAfterWarmup ==
    [][ (op' = "pop" /\ h_last = -1) =>
            IF rc' = "SUCCESS"
            THEN /\ h_first_push # TimepointMin
                 /\ \/ UGe(now' - h_first_push, nominal_depth_ms)
                    \/ UGe(depth_ms, nominal_depth_ms)
            ELSE rc' = "BUFFERING" ]_vars

\* the first SUCCESS pop, released by the clock with the buffer below nominal
C5_Witness ==
    /\ op = "pop" /\ rc = "SUCCESS"
    /\ h_prev.seq = -1
    /\ ULt(Add32(depth_ms, out.payload_ms), nominal_depth_ms)
    /\ now - h_first_push >= nominal_depth_ms
    /\ stats.empty_count = 1

(* C6, as claimed: nominal depth 60 ms, carriers 100, 101, 102 pushed at    *)
(* 0, 1, 2 ms; the pop at 5 ms returns BUFFERING, the pop at 61 ms SUCCESS  *)
(* with 100, the next two pops deliver 101 and 102, the next BUFFERING.     *)
C6_WarmupAsClaimed ==
    /\ After(Warmup, 4) => rc = "BUFFERING"
    /\ \A n \in 5..7 : After(Warmup, n) => (rc = "SUCCESS" /\ SeqOf(out) = 95 + n)
    /\ After(Warmup, 8) => rc = "BUFFERING"

(* C6, amended: the three carriers make depth_ms 60, the nominal depth, so  *)
(* the pop at 5 ms already returns SUCCESS with 100; the pops at 61 ms      *)
(* deliver 101 and 102, and the pops after that return BUFFERING.           *)
C6_WarmupByDepth ==
    /\ After(Warmup, 3) => (depth_ms = 60 /\ buffering)
    /\ \A n \in 4..6 : After(Warmup, n) => (rc = "SUCCESS" /\ out = PCMU(96 + n))
    /\ \A n \in 7..8 : After(Warmup, n) => (rc = "BUFFERING" /\ buffering)

\* the scenario has run up to the first pop of the emptied buffer
C6_Witness == After(Warmup, 7) /\ rc = "BUFFERING" /\ h_delivered = <<100, 101, 102>>

(* C7: after the pushes 10, 12, 11, 13 with no pop in between the queue is  *)
(* 10, 11, 12, 13 and ooo_count is 1, and the four pops that follow         *)
(* warmup return SUCCESS with 10, 11, 12, 13 in that order.                 *)
C7_LateCarrierSorted ==
    /\ After(Late, 4) => (Seqs(buffer) = <<10, 11, 12, 13>> /\ stats.ooo_count = 1)
    /\ \A n \in 5..8 : After(Late, n) => (rc = "SUCCESS" /\ SeqOf(out) = 5 + n)

C9_EvictsHeadWhenOver ==
    [][ (op' = "push" /\ arg' # None) =>
            /\ (evicted' # None) <=> Overflowing
            /\ Overflowing =>
                  /\ buffer # <<>>
                  /\ evicted' = Head(buffer)
                  /\ stats'.overflow_count = Add32(stats.overflow_count, 1)
                  /\ depth_ms' = Add32(Sub32(depth_ms, Head(buffer).payload_ms),
                                       IF path' = "append" THEN arg'.payload_ms ELSE 0)
            /\ ~Overflowing => stats'.overflow_count = stats.overflow_count ]_vars

C11_RedundantRecovery ==
    [][ /\ ( /\ op' = "pop"
             /\ ~buffering /\ buffer # <<>>
             /\ h_last # -1 /\ h_drops_since = 0 /\ h_left > 0
             /\ Head(buffer).payload_type = RTP_PAYLOAD_DYNAMIC
             /\ SeqOf(Head(buffer)) = (h_last + 2) % Mod16 )
           => /\ rc' = "SUCCESS"
              /\ out' = [Head(buffer) EXCEPT !.use_redundant_payload = TRUE]
              /\ buffer' = <<out'>> \o Tail(buffer)
              /\ depth_ms' = depth_ms
        /\ (op = "pop" /\ path = "redundant" /\ op' = "pop")
           => /\ rc' = "SUCCESS"
              /\ out' = [Head(buffer) EXCEPT !.use_redundant_payload = FALSE]
              /\ buffer' = Tail(buffer)
              /\ depth_ms' = Sub32(depth_ms, out'.payload_ms) ]_vars

(* C12: while the pushes since init are 0xFFFE, 0xFFFF, 0x0000, 0x0001 in   *)
(* that order (or a beginning of that), with pops interleaved anywhere, the *)
(* queue holds the carriers not yet delivered in push order, none has been  *)
(* counted out of order, the SUCCESS pops have delivered the numbers in     *)
(* that order and no pop has returned DROPPED_PACKET.                       *)
C12_WrapInOrder ==
    (h_stream.on /\ h_stream.n > 0 /\ h_stream.first = 65534 /\ h_stream.n <= 4) =>
        /\ stats.ooo_count = 0
        /\ h_ndrop = 0
        /\ \E d \in 0..h_stream.n :
              /\ h_delivered = SubSeq(<<65534, 65535, 0, 1>>, 1, d)
              /\ Seqs(buffer) = SubSeq(<<65534, 65535, 0, 1>>, d + 1, h_stream.n)

\* all four pushed and delivered, the buffer having run empty on the way
C12_Witness ==
    /\ h_stream.on /\ h_stream.n = 4
    /\ h_delivered = <<65534, 65535, 0, 1>>
    /\ stats.empty_count = 1
    /\ rc = "SUCCESS"

-----------------------------------------------------------------------------
(* C13: every public operation reads and writes the instance state only     *)
(* while it holds the instance lock: whenever a step of a thread changes    *)
(* the queue, the sequence counters, the buffering flag, the depths or the  *)
(* statistics, that thread owns the mutex.                                  *)
C13_WritesUnderLock ==
    [][ \A t \in Threads :
            (pc'[t] # pc[t] /\ prog' # prog) => lock.owner = t ]_vars

-----------------------------------------------------------------------------
-----------------------------------------------------------------------------
(* C15: with one thread pushing and one popping, push and pop are atomic    *)
(* with respect to each other: the two are never inside push and pop at the *)
(* same time, and from the moment a thread is past the lock of push or pop  *)
(* until it returns, no step of the other thread changes the instance, so a *)
(* pop works on the state left by the pushes that returned before it and    *)
(* on nothing of a push that has not returned.                              *)
C15_PushPopAtomic ==
    [][ /\ ~(pc[Pusher] = "push" /\ pc[Popper] = "pop")
        /\ \A t \in Threads :
              (pc[t] \in {"push", "pop"} /\ pc'[t] = pc[t])
                 => /\ prog' = prog
                    /\ lock.owner = t /\ lock'.owner = t ]_vars

C15_Witness ==
    /\ pc[Pusher] = "push" /\ pc[Popper] = "idle"
    /\ lock.owner = Pusher
    /\ op = "pop" /\ rc = "SUCCESS"
    /\ buffer # <<>> /\ ~buffering

-----------------------------------------------------------------------------
(* C16: from every reachable state reset returns SUCCESS and leaves an      *)
(* empty queue, depth_ms = 0, buffering = true, the buffering start unset,  *)
(* the three sequence counters 0 and all statistics zero: the state of a    *)
(* freshly constructed instance with the same nominal depth (its maximum    *)
(* twice the nominal depth, in unsigned arithmetic) and the same sample     *)
(* rate.                                                                    *)
C16_ResetRestores ==
    [][ op' = "reset" =>
          /\ rc' = "SUCCESS"
          /\ buffer' = <<>>
          /\ depth_ms' = 0
          /\ buffering' = TRUE
          /\ buffering_timestamp' = TimepointMin
          /\ first_buf_sequence' = 0
          /\ last_buf_sequence' = 0
          /\ last_pop_sequence' = 0
          /\ stats'.ooo_count = 0
          /\ stats'.empty_count = 0
          /\ stats'.overflow_count = 0
          /\ stats'.jitter = DZero
          /\ stats'.max_jitter = DZero
          /\ stats'.prev_arrival = 0
          /\ stats'.prev_transit = 0
          /\ stats'.prev_rx_timestamp = TimepointMin
          /\ stats'.conversion_factor_timestamp_units = payload_sample_rate \div 1000
          /\ nominal_depth_ms' = nominal_depth_ms
          /\ payload_sample_rate' = payload_sample_rate
          /\ max_buffer_depth' = Add32(nominal_depth_ms, nominal_depth_ms) ]_vars

C16_Witness ==
    /\ op = "reset" /\ rc = "SUCCESS"
    /\ h_npush = MaxDepthPush
    /\ h_ndrop > 0
    /\ nominal_depth_ms = 20 /\ max_buffer_depth = 40
    /\ stats.empty_count = 0 /\ stats.ooo_count = 0 /\ buffer = <<>>

-----------------------------------------------------------------------------
(* C17: a pop on an empty queue returns BUFFERING, yields no carrier,       *)
(* leaves buffering = true, leaves the buffering start and the sequence     *)
(* counters as they were and adds exactly 1 to empty_count, whether or not  *)
(* the instance was buffering already; and no pop, in any state, returns    *)
(* BUFFER_EMPTY, BAD_PACKET or BUFFER_OVERFLOW.                             *)
C17_PopOnEmpty ==
    [][ op' = "pop" =>
          /\ rc' \in {"SUCCESS", "BUFFERING", "DROPPED_PACKET"}
          /\ buffer = <<>> =>
                /\ rc' = "BUFFERING"
                /\ out' = None
                /\ buffering' = TRUE
                /\ buffering_timestamp' = buffering_timestamp
                /\ first_buf_sequence' = first_buf_sequence
                /\ last_buf_sequence' = last_buf_sequence
                /\ last_pop_sequence' = last_pop_sequence
                /\ stats' = [stats EXCEPT !.empty_count = stats.empty_count + 1]
                /\ buffer' = <<>>
                /\ depth_ms' = depth_ms ]_vars

C17_Witness ==
    /\ op = "pop" /\ rc = "BUFFERING" /\ path = "empty"
    /\ buffer = <<>> /\ buffering
    /\ stats.empty_count = 1
    /\ h_delivered # <<>>
    /\ buffering_timestamp = TimepointMin
    /\ last_pop_sequence = h_last

-----------------------------------------------------------------------------
(* C18: set_depth(nominal_ms, max_ms) sets nominal_depth_ms = nominal_ms    *)
(* and max_buffer_depth = max_ms when max_ms >= nominal_ms, otherwise       *)
(* 2 * nominal_ms, and changes nothing else; no carrier is evicted.  An     *)
(* unsigned 32-bit maximum equals 2 * n exactly when n is below 2^31 and    *)
(* the maximum is n + n modulo 2^32.                                        *)
C18_SetDepthFrame ==
    [][ op' = "set_depth" =>
          LET n == arg'.ms_depth
              m == arg'.max_depth
          IN  /\ nominal_depth_ms' = n
              /\ UGe(m, n) => max_buffer_depth' = m
              /\ ULt(m, n) => /\ n >= 0
                              /\ max_buffer_depth' = Add32(n, n)
              /\ evicted' = None
              /\ UNCHANGED <<buffer, depth_ms, first_buf_sequence, last_buf_sequence,
                             last_pop_sequence, buffering, buffering_timestamp, stats,
                             payload_sample_rate>> ]_vars

-----------------------------------------------------------------------------
(* C19: statistics are cleared only by init and reset.  No push, pop,       *)
(* set_depth or eot_detected decreases ooo_count, empty_count,              *)
(* overflow_count or max_jitter, and no operation other than push (and      *)
(* reset) changes jitter, max_jitter, prev_arrival or prev_transit.         *)
C19_StatsMonotonic ==
    [][ /\ op' # "reset" =>
              /\ stats'.ooo_count >= stats.ooo_count
              /\ stats'.empty_count >= stats.empty_count
              /\ stats'.overflow_count >= stats.overflow_count
              /\ ~DLess(stats'.max_jitter, stats.max_jitter)
        /\ op' \notin {"reset", "push"} =>
              /\ stats'.jitter = stats.jitter
              /\ stats'.max_jitter = stats.max_jitter
              /\ stats'.prev_arrival = stats.prev_arrival
              /\ stats'.prev_transit = stats.prev_transit ]_vars

C19_Witness ==
    /\ op = "eot_detected"
    /\ stats.jitter # DZero
    /\ stats.max_jitter = stats.jitter
    /\ stats.prev_transit # 0
    /\ stats.empty_count > 0
    /\ h_ndrop > 0

-----------------------------------------------------------------------------
(* C20: after every push jitter >= 0 and max_jitter >= jitter, whatever the *)
(* packet timestamps and arrival times, transit differences at the ends of  *)
(* the 32-bit range included.  Nothing but push and reset changes the two,  *)
(* so this is a property of every state.                                    *)
C20_JitterNonNegative ==
    /\ ~DLess(stats.jitter, DZero)
    /\ ~DLess(stats.max_jitter, stats.jitter)

-----------------------------------------------------------------------------
(* C21: in every reachable state with a non-empty queue first_buf_seq is    *)
(* the sequence number of the head carrier and last_buf_seq the sequence    *)
(* number of the tail carrier.                                              *)
C21_EndsTracked ==
    buffer # <<>> =>
        /\ first_buf_sequence = SeqOf(Head(buffer))
        /\ last_buf_sequence = SeqOf(buffer[Len(buffer)])

-----------------------------------------------------------------------------
(* C22: a push of a carrier with sequence number s appends it at the tail   *)
(* whenever s >= last_buf_seq, or s = 0 and last_buf_seq = 0xFFFF, or       *)
(* last_pop_seq = first_buf_seq.  Then last_buf_seq becomes s, depth_ms     *)
(* grows by the carrier's payload_ms (from what the overflow check left),   *)
(* ooo_count is unchanged, and if the queue was empty before the append     *)
(* first_buf_seq and last_pop_seq both become s.                            *)
C22_Append ==
    [][ ( /\ op' = "push" /\ arg' # None /\ rc' # "CRASH"
          /\ \/ SeqOf(arg') >= last_buf_sequence
             \/ (SeqOf(arg') = 0 /\ last_buf_sequence = 65535)
             \/ last_pop_sequence = first_buf_sequence )
        => LET s   == SeqOf(arg')
               q   == IF evicted' = None \/ buffer = <<>> THEN buffer ELSE Tail(buffer)
               dep == IF evicted' = None THEN depth_ms
                      ELSE Sub32(depth_ms, evicted'.payload_ms)
           IN  /\ buffer' = Append(q, arg')
               /\ last_buf_sequence' = s
               /\ depth_ms' = Add32(dep, arg'.payload_ms)
               /\ stats'.ooo_count = stats.ooo_count
               /\ rc' \in {"SUCCESS", "BUFFER_OVERFLOW"}
               /\ q = <<>> => first_buf_sequence' = s /\ last_pop_sequence' = s
               /\ q # <<>> => /\ first_buf_sequence' = first_buf_sequence
                              /\ last_pop_sequence' = last_pop_sequence ]_vars

C22_Witness ==
    /\ op = "push" /\ path = "append" /\ rc = "SUCCESS"
    /\ SeqOf(arg) = 0
    /\ Len(buffer) >= 2
    /\ SeqOf(buffer[Len(buffer) - 1]) = 65535
    /\ last_buf_sequence = 0
    /\ last_pop_sequence # first_buf_sequence
    /\ stats.ooo_count = 0

-----------------------------------------------------------------------------
(* C23: a push that is not an append and whose sequence number s equals     *)
(* first_buf_seq - 1 places the carrier at the head of the queue, sets      *)
(* first_buf_seq = s, increases depth_ms by the carrier's payload_ms and    *)
(* ooo_count by 1; and when the next operation is a pop that returns        *)
(* SUCCESS, it delivers that carrier.                                       *)
C23_FrontInsertion ==
    [][ /\ ( /\ op' = "push" /\ arg' # None /\ rc' # "CRASH"
             /\ ~ \/ SeqOf(arg') >= last_buf_sequence
                  \/ (SeqOf(arg') = 0 /\ last_buf_sequence = 65535)
                  \/ last_pop_sequence = first_buf_sequence
             /\ SeqOf(arg') = first_buf_sequence - 1 )
           => LET q   == IF evicted' = None \/ buffer = <<>> THEN buffer ELSE Tail(buffer)
                  dep == IF evicted' = None THEN depth_ms
                         ELSE Sub32(depth_ms, evicted'.payload_ms)
              IN  /\ buffer' = <<arg'>> \o q
                  /\ first_buf_sequence' = SeqOf(arg')
                  /\ depth_ms' = Add32(dep, arg'.payload_ms)
                  /\ stats'.ooo_count = stats.ooo_count + 1
        /\ (op = "push" /\ path = "front" /\ op' = "pop" /\ rc' = "SUCCESS")
           => /\ SeqOf(out') = SeqOf(arg)
              /\ out'.payload_ms = arg.payload_ms ]_vars

-----------------------------------------------------------------------------
(* C24: a push that is neither an append, nor too old, nor immediately      *)
(* before the head inserts the carrier immediately before the first queued  *)
(* carrier whose decoded sequence number is greater than s and increases    *)
(* ooo_count by 1; the queue then holds the carrier and has exactly one     *)
(* element more.                                                            *)
C24_MiddleInsertion ==
    [][ ( /\ op' = "push" /\ arg' # None /\ rc' # "CRASH"
          /\ ~ \/ SeqOf(arg') >= last_buf_sequence
               \/ (SeqOf(arg') = 0 /\ last_buf_sequence = 65535)
               \/ last_pop_sequence = first_buf_sequence
          /\ SeqOf(arg') > first_buf_sequence - 1 )
        => LET s == SeqOf(arg')
               q == IF evicted' = None \/ buffer = <<>> THEN buffer ELSE Tail(buffer)
           IN  /\ stats'.ooo_count = stats.ooo_count + 1
               /\ Len(buffer') = Len(q) + 1
               /\ \E i \in 1..Len(q) :
                     /\ SeqOf(q[i]) > s
                     /\ \A j \in 1..(i - 1) : SeqOf(q[j]) <= s
                     /\ buffer' = SubSeq(q, 1, i - 1) \o <<arg'>> \o SubSeq(q, i, Len(q)) ]_vars

-----------------------------------------------------------------------------
(* C25: a push that is not an append and whose sequence number s is less    *)
(* than first_buf_seq - 1, taken in 16-bit arithmetic for every value of    *)
(* first_buf_seq, 0 included, returns BAD_PACKET, increases ooo_count by 1  *)
(* and does not insert the carrier.                                         *)
C25_TooOld ==
    [][ ( /\ op' = "push" /\ arg' # None /\ rc' # "CRASH"
          /\ ~ \/ SeqOf(arg') >= last_buf_sequence
               \/ (SeqOf(arg') = 0 /\ last_buf_sequence = 65535)
               \/ last_pop_sequence = first_buf_sequence
          /\ SeqOf(arg') < (first_buf_sequence + 65535) % Mod16 )
        => /\ rc' = "BAD_PACKET"
           /\ stats'.ooo_count = stats.ooo_count + 1
           /\ buffer' = IF evicted' = None \/ buffer = <<>> THEN buffer
                        ELSE Tail(buffer) ]_vars

-----------------------------------------------------------------------------
-----------------------------------------------------------------------------
(* C27: the buffering flag changes only inside pop, init and reset.  It     *)
(* goes from true to false only in a pop that sees a non-empty queue with   *)
(* the time since the start of buffering >= nominal_depth_ms or depth_ms >= *)
(* nominal_depth_ms, and from false to true only in a pop that sees an      *)
(* empty queue, or in reset.                                                *)
C27_BufferingFlag ==
    [][ /\ (buffering /\ ~buffering')
           => /\ op' = "pop"
              /\ buffer # <<>>
              /\ \/ /\ buffering_timestamp # TimepointMin
                    /\ UGe(now' - buffering_timestamp, nominal_depth_ms)
                 \/ UGe(depth_ms, nominal_depth_ms)
        /\ (~buffering /\ buffering')
           => \/ op' = "pop" /\ buffer = <<>>
              \/ op' = "reset" ]_vars

C27_Witness ==
    /\ op = "pop" /\ rc = "SUCCESS"
    /\ ~buffering
    /\ stats.empty_count > 0
    /\ h_npush = MaxDepthPush
    /\ buffer = <<>>
    /\ buffering_timestamp = TimepointMin

-----------------------------------------------------------------------------
(* C28: eot_detected sets first_buf_seq, last_buf_seq and last_pop_seq to 0 *)
(* and leaves the queue, depth_ms, the buffering flag and its start, the    *)
(* depths and the statistics unchanged.  The push that follows it is        *)
(* appended at the tail whatever its sequence number, and leaves            *)
(* last_pop_seq = first_buf_seq as eot_detected did; and a pop in playout   *)
(* that finds last_pop_seq = first_buf_seq and a non-empty queue returns    *)
(* SUCCESS with the head carrier, not DROPPED_PACKET.                       *)
C28_EotDetected ==
    [][ /\ op' = "eot_detected"
           => /\ first_buf_sequence' = 0
              /\ last_buf_sequence' = 0
              /\ last_pop_sequence' = 0
              /\ UNCHANGED <<buffer, depth_ms, buffering, buffering_timestamp,
                             nominal_depth_ms, max_buffer_depth, payload_sample_rate,
                             stats>>
        /\ (op = "eot_detected" /\ op' = "push" /\ arg' # None /\ rc' # "CRASH")
           => /\ buffer' = Append(IF evicted' = None \/ buffer = <<>> THEN buffer
                                  ELSE Tail(buffer), arg')
              /\ last_buf_sequence' = SeqOf(arg')
              /\ last_pop_sequence' = first_buf_sequence'
        /\ ( /\ last_pop_sequence = first_buf_sequence
             /\ op \in {"eot_detected", "push"}
             /\ op' = "pop" /\ rc' # "BUFFERING" /\ buffer # <<>> )
           => /\ rc' = "SUCCESS"
              /\ out' = [Head(buffer) EXCEPT !.use_redundant_payload = FALSE]
              /\ buffer' = Tail(buffer) ]_vars

C28_Witness ==
    /\ op = "pop" /\ rc = "SUCCESS"
    /\ h_prev.seq = 10 /\ h_prev.left > 0 /\ h_prev.drops = 0
    /\ ~h_prev.quiet
    /\ h_last = 12
    /\ h_drops_since = 0
    /\ stats.ooo_count = 0

-----------------------------------------------------------------------------
(* C29: neither push nor pop reads or removes the head of an empty queue:   *)
(* whenever depth_ms > max_buffer_depth, so that the next push evicts, the  *)
(* queue is non-empty; a pop past the buffering test has a non-empty queue; *)
(* and depth_ms, an unsigned value, never wraps below zero (it never has    *)
(* its top bit set in these runs otherwise).                                *)
C29_HeadOnlyWhenNonEmpty ==
    /\ alive
    /\ Overflowing => buffer # <<>>
    /\ (~buffering /\ op = "pop" /\ rc \in {"SUCCESS", "DROPPED_PACKET"})
          => (buffer # <<>> \/ out # None)
    /\ depth_ms >= 0

-----------------------------------------------------------------------------
(* C30: playout never stalls on a gap.  In playout with a non-empty queue   *)
(* of non-DYNAMIC carriers and nothing but pops, the pops return            *)
(* DROPPED_PACKET exactly GapAhead times, 0 when last_pop_seq =             *)
(* first_buf_seq and (first_buf_seq - last_pop_seq - 1) mod 2^16 otherwise, *)
(* and then SUCCESS with the head carrier: each such pop either delivers    *)
(* the head (no gap ahead) or lowers the gap ahead by one, and a carrier at *)
(* the head in playout is delivered in the end.                             *)
GapAhead == IF last_pop_sequence = first_buf_sequence THEN 0
            ELSE (first_buf_sequence + 65535 - last_pop_sequence) % 65536

C30_GapSkipped ==
    /\ [][ ( /\ op' = "pop" /\ ~buffering' /\ buffer # <<>>
             /\ \A i \in 1..Len(buffer) : buffer[i].payload_type # RTP_PAYLOAD_DYNAMIC )
           => IF GapAhead = 0
              THEN /\ rc' = "SUCCESS"
                   /\ out' = Head(buffer)
                   /\ buffer' = Tail(buffer)
              ELSE /\ rc' = "DROPPED_PACKET"
                   /\ buffer' = buffer
                   /\ GapAhead' = GapAhead - 1 ]_vars
    /\ \A c \in PlayoutCarriers :
          ( /\ ~buffering /\ buffer # <<>> /\ Head(buffer) = c
            /\ h_ndrop + GapAhead <= MaxPlayoutDrop )
          ~> (op = "pop" /\ rc = "SUCCESS" /\ out = c)

C30_Witness ==
    /\ op = "pop" /\ rc = "SUCCESS"
    /\ h_prev.drops = 65534
    /\ h_prev.seq = 1
    /\ h_last = 0
    /\ SeqOf(out) = 0
    /\ buffer = <<>>

-----------------------------------------------------------------------------
(* C31: with the operations called one after the other, in every reachable  *)
(* state: if buffering is true and the queue is not empty then the          *)
(* buffering start is set (not timepoint::min()), so the elapsed time that  *)
(* pop computes never starts from an unset time; and if buffering is false  *)
(* then the buffering start is unset.                                       *)
C31_BufferingClock ==
    /\ (buffering /\ buffer # <<>>) => buffering_timestamp # TimepointMin
    /\ ~buffering => buffering_timestamp = TimepointMin

\* buffering was left and entered again on an empty queue, and the push that
\* followed started the clock anew
C31_Witness ==
    /\ op = "push" /\ rc = "SUCCESS"
    /\ buffering /\ buffer # <<>>
    /\ stats.empty_count > 0
    /\ h_last # -1
    /\ buffering_timestamp = now
    /\ now > 0

-----------------------------------------------------------------------------
(* C32: reset leaves nominal_depth_ms and payload_sample_rate at the values *)
(* they had before the call and sets max_buffer_depth to                    *)
(* 2 * nominal_depth_ms, whatever maximum set_depth(nominal_ms, max_ms) had *)
(* configured before.  An unsigned 32-bit maximum equals 2 * n exactly when *)
(* n is below 2^31 and the maximum is n + n modulo 2^32.                    *)
C32_ResetDepths ==
    [][ op' = "reset" =>
          /\ rc' = "SUCCESS"
          /\ nominal_depth_ms' = nominal_depth_ms
          /\ payload_sample_rate' = payload_sample_rate
          /\ nominal_depth_ms >= 0
          /\ max_buffer_depth' = Add32(nominal_depth_ms, nominal_depth_ms) ]_vars

=============================================================================
